---- MODULE Spec2Model ----
(***************************************************************************)
(* A model of the `primes` library (src/src/lib.rs): the prime cache of    *)
(* TrialDivision with expand / find / find_vec / get, the cursors built by *)
(* iter / generator / iter_vec, and the stateless factorizer built on      *)
(* firstfac.  u64 arithmetic is modelled at the reduced width W.           *)
(***************************************************************************)
EXTENDS Integers, Sequences, FiniteSets, TLC

VARIABLES
    lst,              \* TrialDivision.lst: the cache of primes found so far
    cur,              \* the live cursor over the cache, if any
    ret,              \* the last call: its name, argument, result, and the cache before it
    x,                \* the argument handed to the factorizer
    out,              \* what the factorizer call produced
    overflow_checks,  \* the build profile: TRUE when integer overflow panics
    run               \* the call in progress, when calls are followed loop step by loop step

vars == <<lst, cur, ret, x, out, overflow_checks, run>>

(***************************************************************************)
(* Bounds of the model.  MaxLen and MaxN keep the cache so short that no    *)
(* candidate l and no square n * n of expand comes near 2 ^ W: the cache   *)
(* operations are checked where their arithmetic does not wrap.  The       *)
(* factorizer is checked over the whole integer type 0 .. 2 ^ W - 1.       *)
(***************************************************************************)
W == 8            \* bits of the modelled unsigned integer type (u64 in the source)
MaxLen == 10      \* expand / next / get stop growing the cache at this length
MaxN == 24        \* largest argument handed to find and find_vec
MaxFree == 6      \* largest argument of a free function called next to a generator

Modulus == 2 ^ W
MaxU == Modulus - 1

\* Wrapping arithmetic of the fixed-width unsigned type.
AddW(a, b) == (a + b) % Modulus
MulW(a, b) == (a * b) % Modulus

(***************************************************************************)
(* Results of calls.  One record shape for every call:                     *)
(*   None            Option::None                                          *)
(*   Some (idx,val)  Option::Some((idx, val)), or Some(val) with idx = 0   *)
(*   Value val       a plain u64                                           *)
(*   Unit            ()                                                    *)
(*   panic           the call panicked                                     *)
(***************************************************************************)
NoneV == [tag |-> "None", idx |-> 0, val |-> 0]
SomeV(i, p) == [tag |-> "Some", idx |-> i, val |-> p]
ValueV(v) == [tag |-> "Value", idx |-> 0, val |-> v]
UnitV == [tag |-> "Unit", idx |-> 0, val |-> 0]
PanicV == [tag |-> "panic", idx |-> 0, val |-> 0]
BoolV(b) == [tag |-> "Bool", idx |-> 0, val |-> IF b THEN 1 ELSE 0]
SliceV(s) == [tag |-> "Slice", idx |-> 0, val |-> s]

(***************************************************************************)
(* TrialDivision                                                           *)
(***************************************************************************)
\* TrialDivision::new(): vec![2, 3]
new == <<2, 3>>

\* #[derive(Default)]: Vec::default(), the empty cache
default == <<>>

\* #[derive(Clone)]: a copy of the cache
clone(s) == s

\* TrialDivision::list: the whole cache as a slice
list(s) == s

\* len() and is_empty(), derived from list()
len(s) == Len(list(s))
is_empty(s) == Len(list(s)) = 0

\* self.lst.last().unwrap() at the head of expand panics on an empty cache
expand_panics(s) == Len(s) = 0

\* self.list().last().unwrap_or(&0)
last_or_0(s) == IF Len(s) = 0 THEN 0 ELSE s[Len(s)]

\* self.list()[i], 0-based; out of range panics
list_at(s, i) == IF i >= 0 /\ i < Len(s) THEN ValueV(s[i + 1]) ELSE PanicV

\* A faulty index: wraps an index past the end around.
index_wraps(s, i) == IF Len(s) = 0 THEN PanicV ELSE ValueV(s[(i % Len(s)) + 1])

\* Index<usize> for TrialDivision: &self.list()[index]
index(s, i) == list_at(s, i)

\* A faulty scan: the break no longer looks at the remainder.
RECURSIVE scan_no_divisor_break(_, _, _, _)
scan_no_divisor_break(s, l, i, remainder) ==
    IF i > Len(s)
    THEN [remainder |-> remainder, broke |-> FALSE]
    ELSE LET n == s[i]
             r == l % n
         IN  IF MulW(n, n) > l
             THEN [remainder |-> r, broke |-> TRUE]
             ELSE scan_no_divisor_break(s, l, i + 1, r)

\* The for loop of expand over the cached primes, from the i-th on (1-based),
\* with the remainder left by the previous iteration.  broke tells whether
\* the loop ended through its break.
RECURSIVE scan(_, _, _, _)
scan(s, l, i, remainder) ==
    IF i > Len(s)
    THEN [remainder |-> remainder, broke |-> FALSE]
    ELSE LET n == s[i]
             r == l % n
         IN  IF r = 0 \/ MulW(n, n) > l
             THEN [remainder |-> r, broke |-> TRUE]
             ELSE scan(s, l, i + 1, r)

\* The candidate loop of expand: try l, l + 2, ... until one is pushed.
RECURSIVE candidates(_, _)
candidates(s, l) ==
    IF scan(s, l, 1, 0).remainder # 0
    THEN Append(s, l)
    ELSE candidates(s, AddW(l, 2))

\* A faulty expand: pushes the first candidate without looking for a divisor.
expand_unchecked(s) == Append(s, AddW(s[Len(s)], 2))

\* A faulty expand: the prime found takes the place of the last entry.
expand_replaces_last(s) ==
    LET c == candidates(s, AddW(s[Len(s)], 2))
    IN  Append(SubSeq(s, 1, Len(s) - 1), c[Len(c)])

\* TrialDivision::expand: the cache after one call.
expand(s) == candidates(s, AddW(s[Len(s)], 2))

\* expand() called k times in a row
RECURSIVE expand_times(_, _)
expand_times(s, k) == IF k <= 0 THEN s ELSE expand_times(expand(s), k - 1)

(***************************************************************************)
(* PrimeSet: the default methods over expand and list                      *)
(***************************************************************************)
\* A faulty binary search: on Less it keeps idx as the new base.
RECURSIVE bsearch_keeps_idx(_, _, _, _)
bsearch_keeps_idx(s, n, base, lim) ==
    IF lim = 0
    THEN IF base < Len(s) THEN SomeV(base, s[base + 1]) ELSE PanicV
    ELSE LET idx == base + (lim \div 2)
         IN  IF s[idx + 1] = n
             THEN SomeV(idx, s[idx + 1])
             ELSE IF s[idx + 1] < n
                  THEN bsearch_keeps_idx(s, n, idx, (lim - 1) \div 2)
                  ELSE bsearch_keeps_idx(s, n, base, lim \div 2)

\* A faulty binary search: an equal entry is passed over like a smaller one.
RECURSIVE bsearch_no_equal(_, _, _, _)
bsearch_no_equal(s, n, base, lim) ==
    IF lim = 0
    THEN IF base < Len(s) THEN SomeV(base, s[base + 1]) ELSE PanicV
    ELSE LET idx == base + (lim \div 2)
         IN  IF s[idx + 1] <= n
             THEN bsearch_no_equal(s, n, idx + 1, (lim - 1) \div 2)
             ELSE bsearch_no_equal(s, n, base, lim \div 2)

\* The binary search loop of find_vec (base and lim as in the source; idx is
\* 0-based, so list()[idx] is s[idx + 1]).  The final list()[base] panics
\* when base is out of range.
RECURSIVE bsearch(_, _, _, _)
bsearch(s, n, base, lim) ==
    IF lim = 0
    THEN IF base < Len(s) THEN SomeV(base, s[base + 1]) ELSE PanicV
    ELSE LET idx == base + (lim \div 2)
         IN  IF s[idx + 1] = n
             THEN SomeV(idx, s[idx + 1])
             ELSE IF s[idx + 1] < n
                  THEN bsearch(s, n, idx + 1, (lim - 1) \div 2)
                  ELSE bsearch(s, n, base, lim \div 2)

\* A faulty find_vec: past the early return it answers with the last entry.
find_vec_last(s, n) ==
    IF n > last_or_0(s) THEN NoneV ELSE SomeV(Len(s) - 1, s[Len(s)])

\* PrimeSet::find_vec
find_vec(s, n) ==
    IF n > last_or_0(s) THEN NoneV ELSE bsearch(s, n, 0, Len(s))

\* The while loop of find: expand until the last entry is >= n.
\* cnt counts the calls of expand.
RECURSIVE find_grow(_, _, _)
find_grow(s, n, cnt) ==
    IF n > last_or_0(s)
    THEN find_grow(expand(s), n, cnt + 1)
    ELSE [lst |-> s, nexp |-> cnt]

\* A faulty find: always expands once more before searching.
find_eager(s, n) ==
    LET g == find_grow(expand(s), n, 1)
    IN  [lst |-> g.lst, nexp |-> g.nexp, val |-> find_vec(g.lst, n)]

\* PrimeSet::find: the cache after the call, the calls of expand it made,
\* and its result; unwrap() of None panics.
find(s, n) ==
    IF n > last_or_0(s) /\ expand_panics(s)
    THEN [lst |-> s, nexp |-> 1, val |-> PanicV]
    ELSE LET g == find_grow(s, n, 0)
             r == find_vec(g.lst, n)
         IN  [lst |-> g.lst, nexp |-> g.nexp,
              val |-> IF r.tag = "None" THEN PanicV ELSE r]

\* A faulty get: expands index - len times, one too few.
get_short(s, i) ==
    LET k == IF i - Len(s) > 0 THEN i - Len(s) ELSE 0
        t == expand_times(s, k)
    IN  [lst |-> t, nexp |-> k, val |-> list_at(t, i)]

\* PrimeSet::get: the range 0..(index + 1 - len) is empty when its end is <= 0.
get(s, i) ==
    LET d == i + 1 - Len(s)
        k == IF d > 0 THEN d ELSE 0
    IN  IF k > 0 /\ expand_panics(s)
        THEN [lst |-> s, nexp |-> 1, val |-> PanicV]
        ELSE [lst |-> expand_times(s, k), nexp |-> k,
              val |-> list_at(expand_times(s, k), i)]

(***************************************************************************)
(* PrimeSetIter                                                            *)
(***************************************************************************)
\* The while loop of next: the cache once n < len, or "exhausted" when the
\* cursor may not expand.
RECURSIVE next_grow(_, _, _, _)
next_grow(s, n, may_expand, cnt) ==
    IF n >= Len(s)
    THEN IF may_expand
         THEN next_grow(expand(s), n, may_expand, cnt + 1)
         ELSE [lst |-> s, nexp |-> cnt, exhausted |-> TRUE]
    ELSE [lst |-> s, nexp |-> cnt, exhausted |-> FALSE]

\* A faulty next: expands whatever the flag says.
next_ignores_flag(s, n, may_expand) ==
    LET g == next_grow(s, n, TRUE, 0)
    IN  [lst |-> g.lst, nexp |-> g.nexp, n |-> n + 1,
         val |-> SomeV(0, g.lst[n + 1])]

\* A faulty next: yields the entry after the cursor and skips one.
next_skip(s, n, may_expand) ==
    LET g == next_grow(s, n + 1, may_expand, 0)
    IN  IF g.exhausted
        THEN [lst |-> g.lst, nexp |-> g.nexp, n |-> n, val |-> NoneV]
        ELSE [lst |-> g.lst, nexp |-> g.nexp, n |-> n + 2,
              val |-> SomeV(0, g.lst[n + 2])]

\* PrimeSetIter::next on a cursor at position n with flag may_expand: the
\* cache and the position after the call, the calls of expand, the result.
next(s, n, may_expand) ==
    IF n >= Len(s) /\ may_expand /\ expand_panics(s)
    THEN [lst |-> s, nexp |-> 1, n |-> n, val |-> PanicV]
    ELSE LET g == next_grow(s, n, may_expand, 0)
         IN  IF g.exhausted
             THEN [lst |-> g.lst, nexp |-> g.nexp, n |-> n, val |-> NoneV]
             ELSE [lst |-> g.lst, nexp |-> g.nexp, n |-> n + 1,
                   val |-> SomeV(0, g.lst[n + 1])]

\* slice::Iter::next over the borrowed list(): position n of the slice s
slice_next(s, n) ==
    IF n < Len(s)
    THEN [n |-> n + 1, val |-> SomeV(0, s[n + 1])]
    ELSE [n |-> n, val |-> NoneV]

(***************************************************************************)
(* The factorizer                                                          *)
(***************************************************************************)
\* The odd divisors of firstfac: d = 2 * m + 1 for m = 1, 2, ... while
\* d * d <= v.  A product or sum that leaves the integer type panics when
\* overflow_checks is set and wraps otherwise.
odd(m) == AddW(MulW(2, m), 1)
overflows(m) == 2 * m + 1 > MaxU \/ odd(m) * odd(m) > MaxU

\* The loop leaves at step m: by a panic, by take_while ending the
\* sequence, or by the return of a divisor.
leaves_at(v, m) ==
    \/ overflow_checks /\ overflows(m)
    \/ MulW(odd(m), odd(m)) > v
    \/ v % odd(m) = 0

\* The loop over the odd divisors, run to the first step m at which it
\* leaves; ovf tells whether a square d * d left the integer type on the way.
odd_divisors(v) ==
    LET m == CHOOSE k \in 1..Modulus :
                 leaves_at(v, k) /\ \A j \in 1..(k - 1) : ~leaves_at(v, j)
        d == odd(m)
        o == \E j \in 1..m : odd(j) * odd(j) > MaxU
    IN  IF overflow_checks /\ overflows(m)
        THEN [val |-> PanicV, ovf |-> o]
        ELSE IF MulW(d, d) <= v
             THEN [val |-> ValueV(d), ovf |-> o]
             ELSE [val |-> ValueV(v), ovf |-> o]

\* firstfac: the first factor (other than 1) of v
firstfac(v) ==
    IF v % 2 = 0
    THEN [val |-> ValueV(2), ovf |-> FALSE]
    ELSE odd_divisors(v)

\* Results of the factorizer: a list of factors, or a panic.
\* yes is the answer of is_prime.
FacOk(op, s) == [op |-> op, tag |-> "Ok", seq |-> s, yes |-> FALSE]
FacPanic(op) == [op |-> op, tag |-> "panic", seq |-> <<>>, yes |-> FALSE]
FacNone == [op |-> "none", tag |-> "Ok", seq |-> <<>>, yes |-> FALSE]
FacBool(op, b) == [op |-> op, tag |-> "Ok", seq |-> <<>>, yes |-> b]

\* The loop of factors: push the first factor of v, divide, repeat.
RECURSIVE factors_loop(_, _)
factors_loop(v, acc) ==
    LET f == firstfac(v)
    IN  IF f.val.tag = "panic"
        THEN FacPanic("factors")
        ELSE IF f.val.val = v
             THEN FacOk("factors", Append(acc, f.val.val))
             ELSE factors_loop(v \div f.val.val, Append(acc, f.val.val))

\* factors: all prime factors of v
factors(v) == IF v <= 1 THEN FacOk("factors", <<>>) ELSE factors_loop(v, <<>>)

\* The inner loop of factors_unique: while v % d == 0 { v /= d }
RECURSIVE divide_out(_, _)
divide_out(v, d) == IF v % d = 0 THEN divide_out(v \div d, d) ELSE v

\* The loop of factors_unique: push the first factor of v, divide all its
\* occurrences out, repeat until v is that factor or 1.
RECURSIVE factors_unique_loop(_, _)
factors_unique_loop(v, acc) ==
    LET f == firstfac(v)
    IN  IF f.val.tag = "panic"
        THEN FacPanic("factors_unique")
        ELSE IF f.val.val = v
             THEN FacOk("factors_unique", Append(acc, f.val.val))
             ELSE IF divide_out(v, f.val.val) = 1
                  THEN FacOk("factors_unique", Append(acc, f.val.val))
                  ELSE factors_unique_loop(divide_out(v, f.val.val),
                                           Append(acc, f.val.val))

\* factors_unique: all unique prime factors of v
factors_unique(v) ==
    IF v <= 1 THEN FacOk("factors_unique", <<>>) ELSE factors_unique_loop(v, <<>>)

\* is_prime: n > 1 && firstfac(n) == n; firstfac is not called when n <= 1.
is_prime(n) ==
    IF n > 1
    THEN IF firstfac(n).val.tag = "panic"
         THEN FacPanic("is_prime")
         ELSE FacBool("is_prime", firstfac(n).val.val = n)
    ELSE FacBool("is_prime", FALSE)

(***************************************************************************)
(* State and actions                                                       *)
(***************************************************************************)
\* A cursor: kind tells what built it; n and expand are PrimeSetIter's
\* fields (n alone for a slice iterator); len0 is the cache length when it
\* was built and yielded the values it has returned so far.
NoCursor == [kind |-> "none", n |-> 0, expand |-> FALSE, len0 |-> 0, yielded |-> <<>>]
Cursor(kind, n, may_expand, s) ==
    [kind |-> kind, n |-> n, expand |-> may_expand, len0 |-> Len(s), yielded |-> <<>>]

\* A call: arg is its argument (for next, the cursor's position before the
\* call), pre the cache before it, nexp the calls of expand it made.
Call(op, arg, pre, val, nexp) ==
    [op |-> op, arg |-> arg, pre |-> pre, val |-> val, nexp |-> nexp]

\* A call followed step by step: pc is the place in the code, op and arg the
\* method called and its argument, left the iterations get's for loop still
\* owes, pre the cache when the call began, nexp the calls of expand made so
\* far; l, i, remainder are expand's locals (i the position of the for loop
\* in the cache, 1-based) and broke tells whether the for loop last ended
\* through its break.
Idle ==
    [pc |-> "idle", op |-> "none", arg |-> 0, left |-> 0, pre |-> <<>>,
     nexp |-> 0, l |-> 0, i |-> 0, remainder |-> 0, broke |-> FALSE]

\* let mut pset = TrialDivision::new();
Init ==
    /\ lst = new
    /\ cur = NoCursor
    /\ ret = Call("new", 0, <<>>, UnitV, 0)
    /\ x = 0
    /\ out = FacNone
    /\ overflow_checks \in BOOLEAN
    /\ run = Idle

\* A cursor built by iter() or generator() borrows the generator mutably
\* and one built by iter_vec() borrows it shared: no &mut self method runs
\* while any cursor lives, and no method at all while a PrimeSetIter lives.
Unborrowed == cur.kind = "none"
SharedOnly == cur.kind \in {"none", "iter_vec"}

\* pset.expand()
Expand ==
    /\ Unborrowed
    /\ Len(lst) < MaxLen
    /\ lst' = IF expand_panics(lst) THEN lst ELSE expand(lst)
    /\ ret' = Call("expand", 0, lst,
                   IF expand_panics(lst) THEN PanicV ELSE UnitV, 1)
    /\ UNCHANGED <<cur, x, out, overflow_checks, run>>

\* A faulty find_vec call: it expands like find before it searches.
FindVec_expands ==
    /\ cur.kind = "none"
    /\ \E n \in 0..MaxN :
          /\ lst' = find(lst, n).lst
          /\ ret' = [op |-> "find_vec", arg |-> n, pre |-> lst,
                     val |-> find_vec(find(lst, n).lst, n), nexp |-> 0]
    /\ UNCHANGED <<cur, x, out, overflow_checks, run>>

\* pset.find_vec(n)
FindVec ==
    /\ SharedOnly
    /\ \E n \in 0..MaxN :
          ret' = Call("find_vec", n, lst, find_vec(lst, n), 0)
    /\ UNCHANGED <<lst, cur, x, out, overflow_checks, run>>

\* pset.find(n)
Find ==
    /\ Unborrowed
    /\ \E n \in 0..MaxN :
          LET r == find(lst, n)
          IN  /\ lst' = r.lst
              /\ ret' = Call("find", n, lst, r.val, r.nexp)
    /\ UNCHANGED <<cur, x, out, overflow_checks, run>>

\* pset.get(index)
Get ==
    /\ Unborrowed
    /\ \E i \in 0..(MaxLen - 1) :
          LET r == get(lst, i)
          IN  /\ lst' = r.lst
              /\ ret' = Call("get", i, lst, r.val, r.nexp)
    /\ UNCHANGED <<x, out, cur, overflow_checks, run>>

\* pset.list()
ListCall ==
    /\ SharedOnly
    /\ ret' = Call("list", 0, lst, SliceV(list(lst)), 0)
    /\ UNCHANGED <<lst, cur, x, out, overflow_checks, run>>

\* pset.len()
LenCall ==
    /\ SharedOnly
    /\ ret' = Call("len", 0, lst, ValueV(len(lst)), 0)
    /\ UNCHANGED <<lst, cur, x, out, overflow_checks, run>>

\* pset.is_empty()
IsEmpty ==
    /\ SharedOnly
    /\ ret' = Call("is_empty", 0, lst, BoolV(is_empty(lst)), 0)
    /\ UNCHANGED <<lst, cur, x, out, overflow_checks, run>>

\* pset[i]
Index ==
    /\ SharedOnly
    /\ \E i \in 0..MaxLen :
          ret' = Call("index", i, lst, index(lst, i), 0)
    /\ UNCHANGED <<lst, cur, x, out, overflow_checks, run>>

\* The result of a free function as the result of a call.
FreeResult(r) ==
    IF r.tag = "panic" THEN PanicV
    ELSE IF r.op = "is_prime" THEN BoolV(r.yes) ELSE SliceV(r.seq)

\* factors(v), factors_unique(v), is_prime(v) called next to the generator:
\* they take a u64 and no generator, so no borrow keeps them from running.
CallFree ==
    /\ \E v \in 0..MaxFree :
          \E r \in {factors(v), factors_unique(v), is_prime(v)} :
             ret' = Call(r.op, v, lst, FreeResult(r), 0)
    /\ UNCHANGED <<lst, cur, x, out, overflow_checks, run>>

\* let pset = pset.clone(): from here on the copy is the instance looked at
Clone ==
    /\ SharedOnly
    /\ lst' = clone(lst)
    /\ cur' = NoCursor
    /\ ret' = Call("clone", 0, lst, UnitV, 0)
    /\ UNCHANGED <<x, out, overflow_checks, run>>

\* pset.iter(): PrimeSetIter { p: self, n: 0, expand: true }
Iter ==
    /\ Unborrowed
    /\ cur' = Cursor("iter", 0, TRUE, lst)
    /\ ret' = Call("iter", 0, lst, UnitV, 0)
    /\ UNCHANGED <<lst, x, out, overflow_checks, run>>

\* A faulty generator(): starts one entry before the end of the cache.
Generator_from_last ==
    /\ cur.kind = "none"
    /\ cur' = [kind |-> "generator", n |-> Len(lst) - 1, expand |-> TRUE,
               len0 |-> Len(lst), yielded |-> <<>>]
    /\ ret' = [op |-> "generator", arg |-> 0, pre |-> lst,
               val |-> UnitV, nexp |-> 0]
    /\ UNCHANGED <<lst, x, out, overflow_checks, run>>

\* pset.generator(): PrimeSetIter { p: self, n: self.len(), expand: true }
Generator ==
    /\ Unborrowed
    /\ cur' = Cursor("generator", Len(lst), TRUE, lst)
    /\ ret' = Call("generator", 0, lst, UnitV, 0)
    /\ UNCHANGED <<lst, x, out, overflow_checks, run>>

\* pset.iter_vec(): self.list().iter()
IterVec ==
    /\ Unborrowed
    /\ cur' = Cursor("iter_vec", 0, FALSE, lst)
    /\ ret' = Call("iter_vec", 0, lst, UnitV, 0)
    /\ UNCHANGED <<lst, x, out, overflow_checks, run>>

\* PrimeSetIter::next on the live cursor
IterNext ==
    /\ cur.kind \in {"iter", "generator", "cursor"}
    /\ cur.expand => (cur.n < Len(lst) \/ Len(lst) < MaxLen)
    /\ LET r == next(lst, cur.n, cur.expand)
       IN  /\ lst' = r.lst
           /\ cur' = [cur EXCEPT !.n = r.n,
                                 !.yielded = IF r.val.tag = "Some"
                                             THEN Append(@, r.val.val) ELSE @]
           /\ ret' = Call("next", cur.n, lst, r.val, r.nexp)
    /\ UNCHANGED <<x, out, overflow_checks, run>>

\* slice::Iter::next on the live iter_vec() cursor
IterVecNext ==
    /\ cur.kind = "iter_vec"
    /\ LET r == slice_next(lst, cur.n)
       IN  /\ cur' = [cur EXCEPT !.n = r.n,
                                 !.yielded = IF r.val.tag = "Some"
                                             THEN Append(@, r.val.val) ELSE @]
           /\ ret' = Call("slice_next", cur.n, lst, r.val, 0)
    /\ UNCHANGED <<lst, x, out, overflow_checks, run>>

\* The cursor goes out of scope; the borrow ends.
Drop ==
    /\ cur.kind # "none"
    /\ cur' = NoCursor
    /\ ret' = Call("drop", 0, lst, UnitV, 0)
    /\ UNCHANGED <<lst, x, out, overflow_checks, run>>

Next ==
    \/ Expand
    \/ FindVec
    \/ Find
    \/ Get
    \/ Iter
    \/ Generator
    \/ IterVec
    \/ IterNext
    \/ IterVecNext
    \/ Drop
    \/ ListCall
    \/ LenCall
    \/ IsEmpty
    \/ Index
    \/ CallFree
    \/ Clone

Spec == Init /\ [][Next]_vars

(***************************************************************************)
(* TrialDivision also derives Default and Clone.  SpecAnyCtor starts from  *)
(* either constructor: new(), or default() with its empty cache.           *)
(***************************************************************************)
InitAnyCtor ==
    /\ \/ lst = new /\ ret = Call("new", 0, <<>>, UnitV, 0)
       \/ lst = default /\ ret = Call("default", 0, <<>>, UnitV, 0)
    /\ cur = NoCursor
    /\ x = 0
    /\ out = FacNone
    /\ overflow_checks \in BOOLEAN
    /\ run = Idle

SpecAnyCtor == InitAnyCtor /\ [][Next]_vars

(***************************************************************************)
(* A cursor that may not expand.  No constructor of the library builds a   *)
(* PrimeSetIter with expand = false; the struct admits one, and next has a *)
(* branch for it.  SpecFrozen starts from any cache the library reaches    *)
(* and, possibly, such a cursor at any position up to the cache length.    *)
(***************************************************************************)
ReachableCaches == {expand_times(new, k) : k \in 0..(MaxLen - 2)}

InitFrozen ==
    /\ lst \in ReachableCaches
    /\ cur \in {NoCursor} \cup {Cursor("cursor", n, FALSE, lst) : n \in 0..Len(lst)}
    /\ ret = Call("new", 0, <<>>, UnitV, 0)
    /\ x = 0
    /\ out = FacNone
    /\ overflow_checks \in BOOLEAN
    /\ run = Idle

SpecFrozen == InitFrozen /\ [][Next]_vars

(***************************************************************************)
(* The factorizer is stateless: SpecFac draws its argument from the whole  *)
(* integer type and the build profile from both, and calls it once.        *)
(***************************************************************************)
InitFac ==
    /\ lst = new
    /\ cur = NoCursor
    /\ ret = Call("new", 0, <<>>, UnitV, 0)
    /\ x \in 0..MaxU
    /\ out = FacNone
    /\ overflow_checks \in BOOLEAN
    /\ run = Idle

\* factors(x)
Factors ==
    /\ out.op = "none"
    /\ out' = factors(x)
    /\ UNCHANGED <<lst, cur, ret, x, overflow_checks, run>>

\* factors_unique(x)
FactorsUnique ==
    /\ out.op = "none"
    /\ out' = factors_unique(x)
    /\ UNCHANGED <<lst, cur, ret, x, overflow_checks, run>>

\* is_prime(x)
IsPrimeCall ==
    /\ out.op = "none"
    /\ out' = is_prime(x)
    /\ UNCHANGED <<lst, cur, ret, x, overflow_checks, run>>

NextFac ==
    \/ Factors
    \/ FactorsUnique
    \/ IsPrimeCall

SpecFac == InitFac /\ [][NextFac]_vars

(***************************************************************************)
(* The loops of expand and of its callers, one iteration per step.         *)
(* SpecLoop follows a call of expand, find, get or an expanding next from  *)
(* its entry to its return: run.pc is "while" at the loop head of the      *)
(* caller, "expand" at the entry of expand, "for" inside the scan over the *)
(* cached primes, "test" after the scan, "idle" between calls.  A call     *)
(* that has begun keeps running: the steps of a call are weakly fair.      *)
(***************************************************************************)
Idling == run.pc = "idle"

\* ret while a call runs: the call holds the &mut borrow, no result of an
\* earlier call is looked at until it returns.
Running == Call("running", 0, <<>>, UnitV, 0)

\* pset.expand() is entered
BeginExpand ==
    /\ Idling
    /\ Unborrowed
    /\ Len(lst) < MaxLen
    /\ run' = [Idle EXCEPT !.pc = "expand", !.op = "expand", !.pre = lst]
    /\ ret' = Running
    /\ UNCHANGED <<lst, cur, x, out, overflow_checks>>

\* pset.find(n) is entered
BeginFind ==
    /\ Idling
    /\ Unborrowed
    /\ \E n \in 0..MaxN :
          run' = [Idle EXCEPT !.pc = "while", !.op = "find", !.arg = n,
                              !.pre = lst]
    /\ ret' = Running
    /\ UNCHANGED <<lst, cur, x, out, overflow_checks>>

\* pset.get(index) is entered: the range of its for loop is computed once
BeginGet ==
    /\ Idling
    /\ Unborrowed
    /\ \E i \in 0..(MaxLen - 1) :
          run' = [Idle EXCEPT !.pc = "while", !.op = "get", !.arg = i,
                              !.left = IF i + 1 - Len(lst) > 0
                                       THEN i + 1 - Len(lst) ELSE 0,
                              !.pre = lst]
    /\ ret' = Running
    /\ UNCHANGED <<lst, cur, x, out, overflow_checks>>

\* next() is entered on the live cursor of iter() or generator()
BeginNext ==
    /\ Idling
    /\ cur.kind \in {"iter", "generator"}
    /\ cur.n < Len(lst) \/ Len(lst) < MaxLen
    /\ run' = [Idle EXCEPT !.pc = "while", !.op = "next", !.arg = cur.n,
                           !.pre = lst]
    /\ ret' = Running
    /\ UNCHANGED <<lst, cur, x, out, overflow_checks>>

\* Between calls a cursor is built or dropped.
IdleIter == Idling /\ Iter
IdleGenerator == Idling /\ Generator
IdleDrop == Idling /\ Drop

\* The loop head of the caller: find's while condition, the next item of
\* get's range, next's while condition with its test of the expand flag.
LoopAgain ==
    IF run.op = "find"
    THEN run.arg > last_or_0(lst)
    ELSE IF run.op = "get"
         THEN run.left > 0
         ELSE cur.n >= Len(lst) /\ cur.expand

\* What the caller returns once its loop is over: find_vec(n).unwrap(),
\* list()[index], or next's None / Some(list()[n - 1]) after n += 1.
Returned ==
    IF run.op = "find"
    THEN IF find_vec(lst, run.arg).tag = "None"
         THEN PanicV ELSE find_vec(lst, run.arg)
    ELSE IF run.op = "get"
         THEN list_at(lst, run.arg)
         ELSE IF cur.n >= Len(lst) THEN NoneV ELSE SomeV(0, lst[cur.n + 1])

\* One evaluation of the caller's loop head: call expand once more, or
\* leave the loop and return.
LoopTest ==
    /\ run.pc = "while"
    /\ IF LoopAgain
       THEN /\ run' = [run EXCEPT !.pc = "expand",
                                  !.left = IF @ > 0 THEN @ - 1 ELSE 0]
            /\ UNCHANGED <<cur, ret>>
       ELSE /\ run' = Idle
            /\ ret' = Call(run.op, run.arg, run.pre, Returned, run.nexp)
            /\ cur' = IF run.op = "next" /\ Returned.tag = "Some"
                      THEN [cur EXCEPT !.n = @ + 1,
                                       !.yielded = Append(@, Returned.val)]
                      ELSE cur
    /\ UNCHANGED <<lst, x, out, overflow_checks>>

\* let mut l = self.lst.last().unwrap() + 2; let mut remainder = 0;
\* and the first for loop begins.
ExpandEnter ==
    /\ run.pc = "expand"
    /\ IF expand_panics(lst)
       THEN /\ run' = Idle
            /\ ret' = Call(run.op, run.arg, run.pre, PanicV, run.nexp + 1)
       ELSE /\ run' = [run EXCEPT !.pc = "for", !.l = AddW(lst[Len(lst)], 2),
                                  !.i = 1, !.remainder = 0, !.broke = FALSE]
            /\ UNCHANGED ret
    /\ UNCHANGED <<lst, cur, x, out, overflow_checks>>

\* A faulty scan step: it breaks on a divisor only, never on n * n > l.
ForStep_no_square_break ==
    /\ run.pc = "for"
    /\ IF run.i > Len(lst)
       THEN run' = [run EXCEPT !.pc = "test", !.broke = FALSE]
       ELSE IF run.l % lst[run.i] = 0
            THEN run' = [run EXCEPT !.pc = "test", !.broke = TRUE,
                                    !.remainder = run.l % lst[run.i]]
            ELSE run' = [run EXCEPT !.i = @ + 1,
                                    !.remainder = run.l % lst[run.i]]
    /\ UNCHANGED <<lst, cur, ret, x, out, overflow_checks>>

\* One iteration of for &n in &self.lst: the loop is over when the cache is
\* used up; otherwise remainder = l % n, and the loop breaks when
\* remainder == 0 || n * n > l.
ForStep ==
    /\ run.pc = "for"
    /\ IF run.i > Len(lst)
       THEN run' = [run EXCEPT !.pc = "test", !.broke = FALSE]
       ELSE IF run.l % lst[run.i] = 0 \/ MulW(lst[run.i], lst[run.i]) > run.l
            THEN run' = [run EXCEPT !.pc = "test", !.broke = TRUE,
                                    !.remainder = run.l % lst[run.i]]
            ELSE run' = [run EXCEPT !.i = @ + 1,
                                    !.remainder = run.l % lst[run.i]]
    /\ UNCHANGED <<lst, cur, ret, x, out, overflow_checks>>

\* A faulty candidate step: a rejected candidate is tried again unchanged.
CandidateTest_same_candidate ==
    /\ run.pc = "test"
    /\ IF run.remainder # 0
       THEN /\ lst' = Append(lst, run.l)
            /\ IF run.op = "expand"
               THEN /\ run' = Idle
                    /\ ret' = [op |-> "expand", arg |-> 0, pre |-> run.pre,
                               val |-> UnitV, nexp |-> 1]
               ELSE /\ run' = [run EXCEPT !.pc = "while", !.nexp = @ + 1]
                    /\ UNCHANGED ret
       ELSE /\ run' = [run EXCEPT !.pc = "for", !.i = 1]
            /\ UNCHANGED <<lst, ret>>
    /\ UNCHANGED <<cur, x, out, overflow_checks>>

\* After the scan: if remainder != 0 { self.lst.push(l); break; } l += 2;
\* the break returns from expand, to the caller's loop head or to the
\* program that called expand itself.
CandidateTest ==
    /\ run.pc = "test"
    /\ IF run.remainder # 0
       THEN /\ lst' = Append(lst, run.l)
            /\ IF run.op = "expand"
               THEN /\ run' = Idle
                    /\ ret' = Call("expand", 0, run.pre, UnitV, 1)
               ELSE /\ run' = [run EXCEPT !.pc = "while", !.nexp = @ + 1]
                    /\ UNCHANGED ret
       ELSE /\ run' = [run EXCEPT !.pc = "for", !.l = AddW(@, 2), !.i = 1]
            /\ UNCHANGED <<lst, ret>>
    /\ UNCHANGED <<cur, x, out, overflow_checks>>

\* The steps of a call in progress
StepLoop ==
    \/ LoopTest
    \/ ExpandEnter
    \/ ForStep
    \/ CandidateTest

NextLoop ==
    \/ BeginExpand
    \/ BeginFind
    \/ BeginGet
    \/ BeginNext
    \/ IdleIter
    \/ IdleGenerator
    \/ IdleDrop
    \/ StepLoop

SpecLoop == Init /\ [][NextLoop]_vars /\ WF_vars(StepLoop)

(***************************************************************************)
(* Arithmetic the properties are stated in                                 *)
(***************************************************************************)
IsPrime(n) == n > 1 /\ \A d \in 2..(n - 1) : n % d # 0

\* p is the smallest prime >= n
IsSmallestPrimeAtLeast(p, n) ==
    /\ p >= n
    /\ IsPrime(p)
    /\ \A q \in n..(p - 1) : ~IsPrime(q)

\* p is the prime at 0-based position k of the sequence of all primes
IsNthPrime(p, k) ==
    /\ IsPrime(p)
    /\ Cardinality({q \in 2..(p - 1) : IsPrime(q)}) = k

\* s is the sequence of the first Len(s) primes
IsPrimePrefix(s) == \A i \in 1..Len(s) : IsNthPrime(s[i], i - 1)

RECURSIVE Product(_)
Product(s) == IF Len(s) = 0 THEN 1 ELSE s[1] * Product(Tail(s))

Max(a, b) == IF a > b THEN a ELSE b

(***************************************************************************)
(* Properties                                                              *)
(***************************************************************************)
\* C1: one call of expand() on a cache reached from TrialDivision::new()
\* grows len() by exactly 1, and the new last element is the smallest prime
\* greater than the previous last element (so it is greater, and prime).
C1_ExpandAppendsNextPrime ==
    ret.op = "expand" =>
        /\ Len(lst) = Len(ret.pre) + 1
        /\ last_or_0(lst) > last_or_0(ret.pre)
        /\ IsPrime(last_or_0(lst))
        /\ IsSmallestPrimeAtLeast(last_or_0(lst), last_or_0(ret.pre) + 1)

\* C1 witness: expand() has stepped over the composites 25 and 27.
C1_Witness ==
    /\ ret.op = "expand"
    /\ last_or_0(ret.pre) = 23
    /\ last_or_0(lst) = 29

\* C2: in every state reached from new() by expand, find, get and next,
\* list() is the first len() primes: it starts 2, 3, is strictly
\* increasing, holds primes only, and skips no prime between two entries.
C2_CacheIsPrimePrefix ==
    /\ Len(lst) >= 2
    /\ lst[1] = 2
    /\ lst[2] = 3
    /\ \A i \in 1..(Len(lst) - 1) : lst[i] < lst[i + 1]
    /\ \A i \in 1..Len(lst) : IsPrime(lst[i])
    /\ \A i \in 1..(Len(lst) - 1) :
          \A q \in (lst[i] + 1)..(lst[i + 1] - 1) : ~IsPrime(q)
    /\ IsPrimePrefix(lst)

\* C2 witness: the cache has grown to ten entries, the last through next().
C2_Witness ==
    /\ Len(lst) = 10
    /\ ret.op = "next"
    /\ ret.nexp = 1

\* C3: find(n) returns (idx, p) with p the smallest prime >= n and
\* list()[idx] = p after the call; it never panics, and n <= 2 gives (0, 2).
C3_FindSmallestPrimeAtLeast ==
    ret.op = "find" =>
        /\ ret.val.tag = "Some"
        /\ IsSmallestPrimeAtLeast(ret.val.val, ret.arg)
        /\ list_at(lst, ret.val.idx) = ValueV(ret.val.val)
        /\ ret.arg <= 2 => (ret.val.idx = 0 /\ ret.val.val = 2)

\* C3 witness: find(20) on a cache ending below 20 has returned (8, 23).
C3_Witness ==
    /\ ret.op = "find"
    /\ ret.arg = 20
    /\ last_or_0(ret.pre) < 20
    /\ ret.val = SomeV(8, 23)

\* C4: find_vec(n) leaves the cache alone; it returns None exactly when n is
\* greater than the last cached prime, and otherwise Some((i, list()[i]))
\* with list()[i] >= n and either i = 0 or list()[i - 1] < n.
C4_FindVecContract ==
    ret.op = "find_vec" =>
        /\ lst = ret.pre
        /\ ret.nexp = 0
        /\ ret.val.tag \in {"None", "Some"}
        /\ ret.val.tag = "None" <=> ret.arg > lst[Len(lst)]
        /\ ret.val.tag = "Some" =>
              /\ ret.val.idx \in 0..(Len(lst) - 1)
              /\ lst[ret.val.idx + 1] = ret.val.val
              /\ ret.val.val >= ret.arg
              /\ ret.val.idx = 0 \/ lst[ret.val.idx] < ret.arg

\* C4 witness: find_vec(14) on a cache of eight primes has returned (6, 17).
C4_Witness ==
    /\ ret.op = "find_vec"
    /\ Len(lst) = 8
    /\ ret.arg = 14
    /\ ret.val = SomeV(6, 17)

\* C5: find(n) expands no further than needed: when n is greater than the
\* last cached prime before the call, afterwards len() = idx + 1 and the
\* last element is the returned prime; otherwise the cache is unchanged.
C5_FindExpandsNoFurther ==
    ret.op = "find" =>
        /\ ret.arg > last_or_0(ret.pre) =>
              /\ ret.val.tag = "Some"
              /\ Len(lst) = ret.val.idx + 1
              /\ last_or_0(lst) = ret.val.val
        /\ ret.arg <= last_or_0(ret.pre) =>
              /\ lst = ret.pre
              /\ ret.nexp = 0

\* C5 witness: find(24) on a cache of four primes has made six calls of expand.
C5_Witness ==
    /\ ret.op = "find"
    /\ ret.arg = 24
    /\ Len(ret.pre) = 4
    /\ ret.nexp = 6
    /\ Len(lst) = 10

\* C6: get(index) on a cache of length L calls expand() exactly
\* max(0, index + 1 - L) times, leaves len() = max(L, index + 1), and
\* returns the prime at 0-based position index of the sequence of primes.
C6_GetContract ==
    ret.op = "get" =>
        /\ ret.nexp = Max(0, ret.arg + 1 - Len(ret.pre))
        /\ Len(lst) = Len(ret.pre) + ret.nexp
        /\ Len(lst) = Max(Len(ret.pre), ret.arg + 1)
        /\ ret.val.tag = "Value"
        /\ IsNthPrime(ret.val.val, ret.arg)
        /\ ret.arg = 0 => ret.val.val = 2
        /\ ret.arg = 1 => ret.val.val = 3
        /\ ret.arg = 2 => ret.val.val = 5

\* C6 witness: get(7) on a cache of three primes has expanded five times.
C6_Witness ==
    /\ ret.op = "get"
    /\ ret.arg = 7
    /\ Len(ret.pre) = 3
    /\ ret.nexp = 5
    /\ ret.val = ValueV(19)

\* C7: on a cursor built by iter(), the k-th call of next() returns Some of
\* the k-th prime, from 2 on whatever was cached, and never None; the first
\* nine values are 2, 3, 5, 7, 11, 13, 17, 19, 23.
C7_IterYieldsAllPrimes ==
    cur.kind = "iter" =>
        /\ IsPrimePrefix(cur.yielded)
        /\ cur.n = Len(cur.yielded)
        /\ ret.op = "next" =>
              /\ ret.val.tag = "Some"
              /\ Len(cur.yielded) = ret.arg + 1
              /\ IsNthPrime(ret.val.val, ret.arg)
              /\ cur.yielded[Len(cur.yielded)] = ret.val.val
        /\ Len(cur.yielded) >= 9 =>
              SubSeq(cur.yielded, 1, 9) = <<2, 3, 5, 7, 11, 13, 17, 19, 23>>

\* C7 witness: a cursor built by iter() on a cache of five primes has
\* replayed them and gone on to its ninth value.
C7_Witness ==
    /\ cur.kind = "iter"
    /\ cur.len0 = 5
    /\ Len(cur.yielded) = 9
    /\ ret.op = "next"
    /\ ret.val = SomeV(0, 23)

\* C8: on a cursor built by generator() on a cache of length L, the j-th
\* call of next() returns the prime at position L + j: never a prime cached
\* when the cursor was built, first the smallest prime above the last one
\* cached then; each next() makes exactly one call of expand(), never None.
C8_GeneratorYieldsNewPrimes ==
    (cur.kind = "generator" /\ ret.op = "next") =>
        /\ ret.val.tag = "Some"
        /\ ret.nexp = 1
        /\ Len(cur.yielded) >= 1
        /\ cur.yielded[Len(cur.yielded)] = ret.val.val
        /\ IsNthPrime(ret.val.val, cur.len0 + Len(cur.yielded) - 1)
        /\ \A i \in 1..Len(cur.yielded) :
              /\ IsNthPrime(cur.yielded[i], cur.len0 + i - 1)
              /\ \A k \in 1..cur.len0 : lst[k] # cur.yielded[i]
        /\ IsSmallestPrimeAtLeast(cur.yielded[1], lst[cur.len0] + 1)

\* C8 witness: a cursor built by generator() on a cache of four primes has
\* yielded 11, 13 and 17.
C8_Witness ==
    /\ cur.kind = "generator"
    /\ cur.len0 = 4
    /\ cur.yielded = <<11, 13, 17>>
    /\ ret.op = "next"

\* C9: iter_vec() on a cache of length L yields exactly the L cached primes
\* in cache order and then None, and expands nothing; a cursor whose expand
\* flag is false returns None from next() as soon as its position reaches
\* the cache length, and leaves the cache unchanged.
C9_FrozenViews ==
    /\ cur.kind = "iter_vec" =>
          /\ Len(lst) = cur.len0
          /\ Len(cur.yielded) <= Len(lst)
          /\ cur.yielded = SubSeq(lst, 1, Len(cur.yielded))
          /\ ret.op = "slice_next" =>
                /\ lst = ret.pre
                /\ ret.val.tag \in {"None", "Some"}
                /\ ret.val.tag = "None" => cur.yielded = lst
                /\ ret.val.tag = "Some" =>
                      cur.yielded[Len(cur.yielded)] = ret.val.val
    /\ (cur.kind # "none" /\ ~cur.expand /\ ret.op = "next") =>
          /\ lst = ret.pre
          /\ ret.nexp = 0
          /\ ret.val.tag = "None" <=> ret.arg >= Len(ret.pre)
          /\ ret.arg < Len(ret.pre) => ret.val = SomeV(0, ret.pre[ret.arg + 1])

\* C9 witness: a cursor built by iter_vec() on a cache of six primes has
\* yielded all six and then None.
C9_Witness ==
    /\ cur.kind = "iter_vec"
    /\ Len(lst) = 6
    /\ cur.yielded = lst
    /\ ret.op = "slice_next"
    /\ ret.val = NoneV

\* The other case of C9: a cursor with expand = false, past the end of a
\* cache of six primes, has returned None.
C9_FrozenCursorExhausted ==
    /\ cur.kind = "cursor"
    /\ Len(lst) = 6
    /\ Len(cur.yielded) = 2
    /\ ret.op = "next"
    /\ ret.val = NoneV

\* C10: for every x > 1, factors(x) is the prime factorization of x with
\* multiplicity (its product is x, it is in non-decreasing order, each
\* element is prime), and factors(0) and factors(1) are empty.
C10_FactorsIsFactorization ==
    out.op = "factors" =>
        /\ out.tag = "Ok"
        /\ x <= 1 => out.seq = <<>>
        /\ x > 1 =>
              /\ Product(out.seq) = x
              /\ \A i \in 1..(Len(out.seq) - 1) : out.seq[i] <= out.seq[i + 1]
              /\ \A i \in 1..Len(out.seq) : IsPrime(out.seq[i])
        /\ x = 12 => out.seq = <<2, 2, 3>>
        /\ x = 121 => out.seq = <<11, 11>>

\* The sequence s with consecutive duplicates removed (Vec::dedup).
RECURSIVE Dedup(_)
Dedup(s) ==
    IF Len(s) <= 1 THEN s
    ELSE IF s[1] = s[2] THEN Dedup(Tail(s)) ELSE <<s[1]>> \o Dedup(Tail(s))

\* C11: for every x, factors_unique(x) is factors(x) with consecutive
\* duplicates removed: each distinct prime divisor of x exactly once, in
\* strictly increasing order, and nothing for x <= 1.
C11_FactorsUniqueIsDedup ==
    out.op = "factors_unique" =>
        /\ out.tag = "Ok"
        /\ factors(x).tag = "Ok"
        /\ out.seq = Dedup(factors(x).seq)
        /\ \A i \in 1..(Len(out.seq) - 1) : out.seq[i] < out.seq[i + 1]
        /\ {out.seq[i] : i \in 1..Len(out.seq)}
              = {p \in 2..x : IsPrime(p) /\ x % p = 0}
        /\ x <= 1 => out.seq = <<>>

\* C12: is_prime(n) is true exactly when n is a value of the full lazy
\* sequence (n is in the cache once its last element is >= n); it is false
\* for n <= 1 and for every composite n.
C12_IsPrimeAgreesWithCache ==
    out.op = "is_prime" =>
        /\ out.tag = "Ok"
        /\ out.yes <=> IsPrime(x)
        /\ x <= 1 => ~out.yes
        /\ x <= MaxN =>
              (out.yes <=> \E i \in 1..Len(find_grow(new, x, 0).lst) :
                               find_grow(new, x, 0).lst[i] = x)

\* C18: in firstfac no square d * d evaluated for the bound check
\* d * d <= x exceeds the largest value of the integer type, whatever x is.
C18_NoSquareOverflows ==
    (out.op = "is_prime" /\ x > 1) => ~firstfac(x).ovf

\* C13: the cache is non-empty and begins with 2, 3 in every reachable
\* state, whether the instance came from new(), Default or Clone; so
\* is_empty() is false and expand, find, find_vec never see an empty cache.
C13_CacheNeverEmpty ==
    /\ Len(lst) >= 2
    /\ lst[1] = 2
    /\ lst[2] = 3
    /\ ret.op = "is_empty" => ret.val = BoolV(FALSE)
    /\ ret.op \in {"expand", "find", "find_vec"} => Len(ret.pre) > 0

\* The calls that take &self, and the free functions.
ReadOnlyOps ==
    {"list", "len", "is_empty", "iter_vec", "slice_next", "find_vec", "index",
     "factors", "factors_unique", "is_prime"}

\* C14: list, len, is_empty, iter_vec, find_vec, indexing and the free
\* functions factors, factors_unique, is_prime never change the cache, and
\* list() returns the cache: calls of list() with only such calls between
\* them return identical sequences.
C14_ReadOnlyFrame ==
    [][ret'.op \in ReadOnlyOps =>
           /\ lst' = lst
           /\ ret'.pre = lst
           /\ ret'.op = "list" => ret'.val = SliceV(lst)
           /\ (ret.op = "list" /\ ret'.op = "list") => ret'.val = ret.val]_vars

\* C14 witness: find_vec has run on a cache of seven primes while a cursor
\* built by iter_vec() was alive, and the cache is as before.
C14_Witness ==
    /\ ret.op = "find_vec"
    /\ cur.kind = "iter_vec"
    /\ Len(lst) = 7
    /\ lst = ret.pre

\* C15: pset[i] is list()[i] for every i < len(); for i >= len() it panics,
\* returns nothing and leaves the cache as it was.
C15_IndexContract ==
    ret.op = "index" =>
        /\ lst = ret.pre
        /\ ret.nexp = 0
        /\ ret.arg < Len(ret.pre) => ret.val = ValueV(ret.pre[ret.arg + 1])
        /\ ret.arg >= Len(ret.pre) => ret.val = PanicV

\* C15 witness: pset[5] on a cache of five primes has panicked.
C15_Witness ==
    /\ ret.op = "index"
    /\ Len(lst) = 5
    /\ ret.arg = 5
    /\ ret.val = PanicV

\* C16: the cache is append-only: every step takes list L to a list L' of
\* which L is a prefix, so a pair (idx, p) returned by find or find_vec
\* still has list()[idx] = p after the next step, and so after every later one.
C16_AppendOnly ==
    [][/\ Len(lst') >= Len(lst)
       /\ SubSeq(lst', 1, Len(lst)) = lst
       /\ (ret.op \in {"find", "find_vec"} /\ ret.val.tag = "Some") =>
              list_at(lst', ret.val.idx) = ValueV(ret.val.val)]_vars

\* C16 witness: after find(6) returned (3, 7) the cache has grown by three
\* entries through get and still holds 7 at index 3.
C16_Witness ==
    /\ ret.op = "get"
    /\ ret.nexp = 3
    /\ Len(ret.pre) = 4
    /\ SubSeq(lst, 1, 4) = ret.pre
    /\ lst[4] = 7

\* C17: when find(n) has returned (idx, p), a find(p) or a second find(n)
\* right after it returns the same pair and leaves the cache unchanged, and
\* find_vec(n) returns Some((idx, p)).
C17_FindIsStable ==
    ret.op = "find" =>
        /\ ret.val.tag = "Some"
        /\ find(lst, ret.arg) = [lst |-> lst, nexp |-> 0, val |-> ret.val]
        /\ find(lst, ret.val.val) = [lst |-> lst, nexp |-> 0, val |-> ret.val]
        /\ find_vec(lst, ret.arg) = ret.val

\* C17 witness: find(14) has grown the cache and returned (6, 17).
C17_Witness ==
    /\ ret.op = "find"
    /\ ret.arg = 14
    /\ ret.nexp >= 1
    /\ ret.val = SomeV(6, 17)

\* The calls followed step by step return what the calls taken in one step
\* return: the same cache, the same result, the same count of expand calls.
FollowedAgrees ==
    (Idling /\ ret.op \in {"expand", "find", "get", "next"}) =>
        IF ret.op = "expand"
        THEN lst = expand(ret.pre) /\ ret.val = UnitV /\ ret.nexp = 1
        ELSE IF ret.op = "find"
             THEN [lst |-> lst, nexp |-> ret.nexp, val |-> ret.val]
                      = find(ret.pre, ret.arg)
             ELSE IF ret.op = "get"
                  THEN [lst |-> lst, nexp |-> ret.nexp, val |-> ret.val]
                           = get(ret.pre, ret.arg)
                  ELSE [lst |-> lst, nexp |-> ret.nexp, n |-> cur.n,
                        val |-> ret.val] = next(ret.pre, ret.arg, TRUE)

\* C19: every call of expand, find, get or an expanding next that has begun
\* returns; every call of expand that is entered returns, and it returns
\* with one prime appended, so each caller makes finitely many calls of
\* expand.
C19_CallsTerminate ==
    /\ (run.pc # "idle") ~> (run.pc = "idle")
    /\ (run.pc \in {"expand", "for", "test"})
           ~> (run.pc \in {"while", "idle"})
    /\ [][(run.pc \in {"expand", "for", "test"}
              /\ run'.pc \in {"while", "idle"})
            => (Len(lst') = Len(lst) + 1 /\ IsPrime(lst'[Len(lst')]))]_vars

\* C19 witness: find(20) on a cache ending at 7 has returned after four calls
\* of expand, the last of which rejected the candidate 21 before it pushed 23.
C19_Witness ==
    /\ Idling
    /\ ret.op = "find"
    /\ ret.arg = 20
    /\ ret.nexp = 5
    /\ Len(ret.pre) = 4
    /\ lst[Len(lst)] = 23

\* C20: inside expand the scan never reaches the end of the cache, it ends
\* through its break for every candidate; the candidate it leaves with a
\* non-zero remainder (the one pushed) has no cached divisor n with
\* n * n <= l, and the candidate it leaves with remainder 0 (the one
\* rejected) is exactly one that some cached prime divides.
C20_ScanEndsThroughBreak ==
    /\ run.pc = "for" => run.i <= Len(lst)
    /\ run.pc = "test" =>
          /\ run.broke
          /\ run.remainder # 0 =>
                \A k \in 1..Len(lst) :
                    lst[k] * lst[k] <= run.l => run.l % lst[k] # 0
          /\ run.remainder = 0 <=>
                \E k \in 1..Len(lst) : run.l % lst[k] = 0

\* C20 witness: the scan of the candidate 23 over the cache 2, 3, ..., 19 has
\* ended through n * n > l at 5, with cached primes left unvisited.
C20_Witness ==
    /\ run.pc = "test"
    /\ run.l = 23
    /\ run.broke
    /\ run.remainder # 0
    /\ run.i = 3
    /\ Len(lst) = 8

\* The scan of the candidate 21 has ended through a divisor: 21 is rejected.
C20_Rejected ==
    /\ run.pc = "test"
    /\ run.l = 21
    /\ run.broke
    /\ run.remainder = 0

====
